---------------------------- MODULE Spec2Model ----------------------------
(***************************************************************************)
(* A model of the resilience layer of the InternalAPI gateway:             *)
(*   - package circuitbreaker  (src/unnamed/part_002)                      *)
(*   - services.ExternalService (src/internal/services/external.go)        *)
(*   - middleware JWT validation / token blacklist and the token-bucket    *)
(*     rate limiter (src/unnamed/part_006)                                 *)
(*   - the auth handlers (src/unnamed/part_004)                            *)
(*                                                                         *)
(* Time is a discrete clock `now`; every time.Now() of a step reads it.    *)
(* Goroutines are the processes in Procs; each exported operation is an    *)
(* action (or a chain of actions split where the code releases or waits    *)
(* for a lock or for the network).                                         *)
(***************************************************************************)
EXTENDS Integers, Sequences, FiniteSets, TLC

----------------------------------------------------------------------------
(* Bounds of the model *)

\* the clock runs from 0 to MaxTime
MaxTime == 3
\* at most MaxCalls dispatcher calls are started in one behaviour
MaxCalls == 4
\* cfg.CircuitBreakerFailureThreshold (CB_FAILURE_THRESHOLD), scaled down
FailureThreshold == 2
\* cfg.CircuitBreakerTimeout (CB_TIMEOUT_SECONDS), in clock ticks
Timeout == 2

\* the rate limiter's clock runs from 0 to RLMaxTime
RLMaxTime == 21
\* requests per interval of the limiter (rate), scaled down
Rate == 2
\* the limiter's time window (interval), in clock ticks
Interval == 2
\* NewRateLimiter: cleanupInt = interval * CleanupFactor
CleanupFactor == 10

\* the token validator's clock runs from 0 to JWTMaxTime (in hours)
JWTMaxTime == 4
\* the expiry instants BlacklistToken is called with are 1..MaxExpiry
MaxExpiry == 3
\* cleanupBlacklist's ticker period: time.NewTicker(1 * time.Hour)
SweepInterval == 1

\* at most MaxInFlight requests are past JWTAuthMiddleware at a time
MaxInFlight == 1

\* the zero value of time.Time: far in the past of every clock reading
ZeroTime == -1000

\* the goroutines that issue calls concurrently
Procs == {1, 2}

----------------------------------------------------------------------------
(* Service names *)

\* names the dispatcher's switch resolves to the API Beheerder
BeheerderNames == {"beheerder", "api-beheerder"}
\* names the dispatcher's switch resolves to Central Management
CentralNames == {"central", "central-mgmt"}
\* names main() registers a breaker for
StartupNames == {"api-beheerder", "central-mgmt"}
\* names given to the dispatcher and the registry by their callers
ServiceNames == {"api-beheerder", "central", "other"}

VARIABLES
    now,              \* the clock
    circuitBreakers,  \* map serviceName -> *CircuitBreaker
    serviceMetrics,   \* map serviceName -> *ServiceMetrics
    pc,               \* where each goroutine is in ExternalService.Call
    svc,              \* the serviceName argument of its call in progress
    probe,            \* its operation was started by the Open->HalfOpen move
    invoked,          \* how often its call in progress ran its operation
    ret,              \* the error its latest call returned ("nil": none)
    streak,           \* per service: failing operations in a row
    rlBuckets,        \* rl.buckets: map key -> *bucket (a bucket id)
    rlObj,            \* the bucket objects that are still referenced
    sweepFree,        \* the same limiter, run on the same calls, without sweep
    apc,              \* where each goroutine is in RateLimiter.Allow
    akey,             \* the key argument of its Allow in progress
    aptr,             \* the *bucket b it holds (0: nil)
    allowed,          \* what the latest return of Allow gave
    tokenBlacklist,   \* map tokenString -> expiresAt
    vres,             \* the latest ValidateJWT call: its token and its error
    revokedOwn,       \* tokens last blacklisted with their own expiry
    rpc,              \* per request goroutine: where it is in the handler chain
    req,              \* per request goroutine: the request it serves
    resp,             \* the latest response written to a client
    loggedOut,        \* tokens whose logout request was answered with 200
    auditLog,         \* the latest record AuditLogger wrote
    snap,             \* GetAllStatus at work on a service: what it has read
    hist              \* what the service's breaker and counters have been
                      \* since that GetAllStatus began

\* the breaker registry, the dispatcher's calls
cbVars == <<circuitBreakers, serviceMetrics, pc, svc, probe, invoked, ret,
            streak>>
\* one RateLimiter
rlVars == <<rlBuckets, rlObj, sweepFree, apc, akey, aptr, allowed>>

\* the token blacklist and its users
jwtVars == <<tokenBlacklist, vres, revokedOwn>>

\* the requests in progress and their responses
reqVars == <<rpc, req, resp, loggedOut, auditLog>>

\* the status reader
statVars == <<snap, hist>>

vars == <<now, cbVars, rlVars, jwtVars, reqVars, statVars>>

\* no call in progress: the locals of a returned call are gone
NoService == "-"
NoKey == "-"

----------------------------------------------------------------------------
(* package circuitbreaker *)

\* &CircuitBreaker{...} as built by Init
NewCircuitBreaker(failureThreshold, timeout) ==
    [failureThreshold |-> failureThreshold, timeout |-> timeout,
     state |-> "closed", failures |-> 0, lastFailTime |-> ZeroTime]

\* &ServiceMetrics{}
NewServiceMetrics ==
    [TotalCalls |-> 0, SuccessCalls |-> 0, FailureCalls |-> 0,
     CircuitOpen |-> FALSE, LastCallTime |-> ZeroTime]

\* Get(serviceName) found a breaker (it returns nil otherwise)
Get(serviceName) == serviceName \in DOMAIN circuitBreakers

\* goroutines that hold cb.mutex of serviceName: Call keeps it from its first
\* line until it returns, so across the whole operation
Holders(serviceName) == {p \in Procs : pc[p] = "fn" /\ svc[p] = serviceName}

\* Call not holding the mutex while its operation runs
MutexNotHeld(serviceName) == TRUE

\* one mutex for all the breakers
OneMutexFree(serviceName) == \A q \in Procs : pc[q] # "fn"

\* cb.mutex.Lock() can be taken
MutexFree(serviceName) == Holders(serviceName) = {}

\* time.Since(cb.lastFailTime) < cb.timeout
InCooldown(cb) == now - cb.lastFailTime < cb.timeout

\* a gate that lets every call through
GateNeverRejects(cb) == FALSE

\* a gate that never lets a call through once the breaker is Open
GateRejectsWhileOpen(cb) == cb.state = "open"

\* the head of Call: "reject" while Open within the cooldown, else the
\* breaker as the operation sees it
GateRejects(cb) == cb.state = "open" /\ InCooldown(cb)

\* a rejection that restarts the cooldown
RejectedStamped(cb) == [cb EXCEPT !.lastFailTime = now]

\* the breaker after Call has returned the circuit-open error at line 92:
\* nothing is written
Rejected(cb) == cb

AfterGate(cb) ==
    IF cb.state = "open" THEN [cb EXCEPT !.state = "half-open"] ELSE cb

\* the threshold compared with > for >=
ReachedStrict(cb) == cb.failures > cb.failureThreshold

\* cb.failures >= cb.failureThreshold
Reached(cb) == cb.failures >= cb.failureThreshold

\* a failure that does not stamp lastFailTime
AfterResultNoStamp(cb, failed) ==
    IF failed
    THEN LET c1 == [cb EXCEPT !.failures = @ + 1]
         IN  IF Reached(c1) THEN [c1 EXCEPT !.state = "open"] ELSE c1
    ELSE LET c1 == [cb EXCEPT !.failures = 0]
         IN  IF c1.state = "half-open" THEN [c1 EXCEPT !.state = "closed"]
             ELSE c1

\* a success that leaves the failure counter as it is
AfterResultKeepingFailures(cb, failed) ==
    IF failed
    THEN LET c1 == [cb EXCEPT !.failures = @ + 1, !.lastFailTime = now]
         IN  IF Reached(c1) THEN [c1 EXCEPT !.state = "open"] ELSE c1
    ELSE IF cb.state = "half-open" THEN [cb EXCEPT !.state = "closed"]
         ELSE cb

\* the breaker after the operation returned err (failed) or nil
AfterResult(cb, failed) ==
    IF failed
    THEN LET c1 == [cb EXCEPT !.failures = @ + 1, !.lastFailTime = now]
         IN  IF Reached(c1) THEN [c1 EXCEPT !.state = "open"] ELSE c1
    ELSE LET c1 == [cb EXCEPT !.failures = 0]
         IN  IF c1.state = "half-open" THEN [c1 EXCEPT !.state = "closed"]
             ELSE c1

\* metrics that do not count the failures
MetricsAfterResultNoFailures(m, failed, cbAfter) ==
    IF failed
    THEN [m EXCEPT !.TotalCalls = @ + 1, !.LastCallTime = now,
                   !.CircuitOpen = (cbAfter.state = "open")]
    ELSE [m EXCEPT !.TotalCalls = @ + 1, !.LastCallTime = now,
                   !.SuccessCalls = @ + 1, !.CircuitOpen = FALSE]

\* the metrics after the operation returned; cbAfter is the breaker after it
MetricsAfterResult(m, failed, cbAfter) ==
    IF failed
    THEN [m EXCEPT !.TotalCalls = @ + 1, !.LastCallTime = now,
                   !.FailureCalls = @ + 1,
                   !.CircuitOpen = (cbAfter.state = "open")]
    ELSE [m EXCEPT !.TotalCalls = @ + 1, !.LastCallTime = now,
                   !.SuccessCalls = @ + 1, !.CircuitOpen = FALSE]

----------------------------------------------------------------------------
(* services.ExternalService *)

\* the body has no "error" key
NoErrorKey == "-"

\* a downstream response: transport outcome, whether the body decodes as a
\* JSON object, the HTTP status, the value under the body's "error" key
Response(transport, decodes, status, error) ==
    [transport |-> transport, decodes |-> decodes, status |-> status,
     error |-> error]

\* what the downstream can do with one request
Responses ==
    {Response("error",   FALSE, 0,   NoErrorKey),
     Response("timeout", FALSE, 0,   NoErrorKey),
     Response("ok",      FALSE, 200, NoErrorKey),
     Response("ok",      FALSE, 500, NoErrorKey),
     Response("ok",      TRUE,  200, NoErrorKey),
     Response("ok",      TRUE,  404, NoErrorKey),
     Response("ok",      TRUE,  500, "db-1 down"),
     Response("ok",      TRUE,  500, "db-2 down")}

\* a switch whose default case is Central Management
ResolveLenient(serviceName) ==
    IF serviceName \in BeheerderNames THEN "beheerder" ELSE "central"

\* the switch of Call: which downstream the name resolves to
Resolve(serviceName) ==
    IF serviceName \in BeheerderNames THEN "beheerder"
    ELSE IF serviceName \in CentralNames THEN "central"
    ELSE "unknown"

\* makeHTTPCall without its check of the HTTP status
makeHTTPCallIgnoringStatus(r) ==
    IF r.transport # "ok" THEN "request_failed"
    ELSE IF ~r.decodes THEN "decode_failed"
    ELSE "nil"

\* the error makeHTTPCall returns for a downstream response ("nil": none);
\* for a status >= 400 its text holds the body's "error" value if there is
\* one
makeHTTPCall(r) ==
    IF r.transport # "ok" THEN "request_failed"
    ELSE IF ~r.decodes THEN "decode_failed"
    ELSE IF r.status >= 400
    THEN IF r.error # NoErrorKey
         THEN "external service error: " \o r.error
         ELSE "service_error"
    ELSE "nil"

----------------------------------------------------------------------------
(* middleware: JWT validation and the token blacklist *)

\* cfg.JWTSecret as main hands it to InitJWT: getEnv never returns ""
JWTSecret == "your-jwt-secret-key"

\* a token string, by what the parser finds in it: whether it has the three
\* segments of a JWT, its signing method, whether its signature verifies
\* under the secret, and its exp claim
Token(wf, alg, sig, hasExp, exp) ==
    [wf |-> wf, alg |-> alg, sig |-> sig, hasExp |-> hasExp, exp |-> exp]

NoToken == Token(FALSE, "-", FALSE, FALSE, 0)
MalformedToken == Token(FALSE, "none", FALSE, FALSE, 0)
ForgedToken == Token(TRUE, "HS256", FALSE, TRUE, 2)
GoodToken == Token(TRUE, "HS256", TRUE, TRUE, 2)
EternalToken == Token(TRUE, "HS256", TRUE, FALSE, 0)

\* the token strings callers present
Tokens == {MalformedToken, ForgedToken, GoodToken, EternalToken}

\* isBlacklisted
isBlacklisted(tok) == tok \in DOMAIN tokenBlacklist

\* a parser that still accepts a token at the instant of its exp
ParseWithClaimsAtExpiry(tok) ==
    IF ~tok.wf THEN "malformed"
    ELSE IF tok.alg # "HS256" THEN "unverifiable"
    ELSE IF ~tok.sig THEN "signature_invalid"
    ELSE IF tok.hasExp /\ ~(now <= tok.exp) THEN "expired"
    ELSE "nil"

\* jwt.ParseWithClaims with ValidateJWT's key function: the token's shape,
\* the signing method (the key function refuses all but HMAC), the signature,
\* then the registered claims (the library accepts exp only while now < exp)
ParseWithClaims(tok) ==
    IF ~tok.wf THEN "malformed"
    ELSE IF tok.alg # "HS256" THEN "unverifiable"
    ELSE IF ~tok.sig THEN "signature_invalid"
    ELSE IF tok.hasExp /\ ~(now < tok.exp) THEN "expired"
    ELSE "nil"

\* a validation that looks at the blacklist only after parsing the token
ValidateJWTParseFirst(tok) ==
    IF JWTSecret = "" THEN "secret_not_initialized"
    ELSE IF ParseWithClaims(tok) # "nil" THEN ParseWithClaims(tok)
    ELSE IF tok.hasExp /\ tok.exp < now THEN "has_expired"
    ELSE IF isBlacklisted(tok) THEN "revoked"
    ELSE "nil"

\* the error ValidateJWT returns ("nil": none, the claims are returned)
ValidateJWT(tok) ==
    IF JWTSecret = "" THEN "secret_not_initialized"
    ELSE IF isBlacklisted(tok) THEN "revoked"
    ELSE IF ParseWithClaims(tok) # "nil" THEN ParseWithClaims(tok)
    ELSE IF tok.hasExp /\ tok.exp < now THEN "has_expired"
    ELSE "nil"

\* a sweep that removes an entry at the instant of its expiresAt
SweptAtExpiry(expiresAt) == expiresAt <= now

\* a sweep whose comparison is turned around
SweptReversed(expiresAt) == expiresAt > now

\* expiresAt.Before(now)
Swept(expiresAt) == expiresAt < now

----------------------------------------------------------------------------
(* routes: the requests of the groups /api/v1 and /admin *)

\* the routes that are followed here: POST /api/v1/auth/logout and
\* GET /api/v1/auth/me of the protected group, GET /admin/users and
\* POST /admin/circuit-breakers/:service/reset of the admin group
Routes == {"logout", "me", "users", "reset"}

\* the group a route is registered in
Group(route) == IF route \in {"users", "reset"} THEN "admin" ELSE "api"

\* the :service parameter of the reset route
ResetParams == {"central-mgmt", "central", "no-such-service"}

\* the path parameters a request to the route can carry
Params(route) == IF route = "reset" THEN ResetParams ELSE {"-"}

\* an Authorization header: absent, not of the form "Bearer <token>", or
\* carrying a token
NoHeader == [kind |-> "none", token |-> NoToken]
BadHeader == [kind |-> "bad", token |-> NoToken]
Bearer(tok) == [kind |-> "bearer", token |-> tok]
\* a token like GoodToken whose claims carry the role admin
AdminToken == Token(TRUE, "HS256", TRUE, TRUE, 3)
Headers ==
    {NoHeader, BadHeader} \cup {Bearer(tok) : tok \in Tokens \cup {AdminToken}}

\* extractToken
extractToken(header) == IF header.kind = "bearer" THEN header.token ELSE NoToken

\* claims.UserID of the tokens that verify
UserID(tok) == "user-1"

\* claims.Roles of the tokens that verify
Roles(tok) == IF tok = AdminToken THEN {"admin"} ELSE {"user"}

\* RequireRoles("admin", "super_admin")
RequiredRoles == {"admin", "super_admin"}

\* cfg.RateLimitEnabled, true unless the environment says otherwise
RateLimitEnabled == TRUE

\* cfg.EnableAuditLogging, true unless the environment says otherwise
EnableAuditLogging == TRUE

\* an admin group whose chain lacks RequireRoles
ChainWithoutRoles(route) ==
    <<"jwt">> \o (IF RateLimitEnabled THEN <<"ratelimit">> ELSE <<>>)

\* a chain in which the limiter is not consulted
ChainWithoutLimit(route) ==
    <<"jwt">> \o (IF Group(route) = "admin" THEN <<"roles">> ELSE <<>>)

\* the middleware Setup puts in front of the handlers of the route's group,
\* in the order of the Use calls
Chain(route) ==
    <<"jwt">>
    \o (IF Group(route) = "admin" THEN <<"roles">> ELSE <<>>)
    \o (IF RateLimitEnabled THEN <<"ratelimit">> ELSE <<>>)

\* c.Next(): what runs after the middleware in ran have passed
After(route, ran) ==
    IF Len(ran) < Len(Chain(route))
    THEN Chain(route)[Len(ran) + 1]
    ELSE "handler"

\* the limiter instances of the two groups are told apart by the key
LimiterKey(route, userID) == <<Group(route), userID>>

\* a request in progress: its route, path parameter and header, and the
\* middleware that have run on it so far
NoRequest == [route |-> "-", param |-> "-", header |-> NoHeader, ran |-> <<>>]

\* a response: status, error code and message detail, with the middleware
\* that ran on the request and the number of audit records written for it
NoResponse == [status |-> 0, code |-> "-", detail |-> "-", ran |-> <<>>,
               audited |-> 0, retry_after |-> 0]

----------------------------------------------------------------------------
(* middleware.AuditLogger *)

\* routes.Setup: method and path of the routes that take a request body, and
\* of some that are asked with GET
Routed ==
    {<<"POST", "/auth/login">>,
     <<"POST", "/auth/refresh">>,
     <<"POST", "/api/v1/auth/logout">>,
     <<"GET",  "/api/v1/auth/me">>,
     <<"PUT",  "/api/v1/auth/change-password">>,
     <<"POST", "/api/v1/albums">>,
     <<"GET",  "/admin/users">>,
     <<"POST", "/admin/users">>}

\* the routes of Login, ChangePassword and CreateUser, whose bodies carry a
\* password
PasswordRoutes ==
    {<<"POST", "/auth/login">>,
     <<"PUT",  "/api/v1/auth/change-password">>,
     <<"POST", "/admin/users">>}

\* bodies of this length or more are not logged
BodyLogLimit == 1024

\* the lengths of the request bodies that arrive
BodySizes == {0, 1, BodyLogLimit - 1, BodyLogLimit}

\* the status the rest of the chain answers with
Statuses == {200, 401, 403, 500}

\* the paths whose bodies AuditLogger leaves out
ExcludedPaths == {"/auth/login", "/auth/change-password", "/admin/users"}

\* the path is one AuditLogger keeps the body of out of the record
Excluded(path) == path \in ExcludedPaths

\* fields["request_body"] is set
LogsBody(method, path, size) ==
    /\ method # "GET"
    /\ size > 0
    /\ size < BodyLogLimit
    /\ ~Excluded(path)

\* the level the record is logged at
Level(status) ==
    IF status >= 500 THEN "error" ELSE IF status >= 400 THEN "warn" ELSE "info"

\* no record written yet
NoRecord == [method |-> "-", path |-> "-", status |-> 0, request_size |-> 0,
             request_body |-> FALSE, level |-> "-"]

----------------------------------------------------------------------------
(* circuitbreaker.GetAllStatus *)

\* what one pass of GetAllStatus's loop reads: cb.GetState(), cb.failures,
\* and the counters of the metrics
StatusFields == {"state", "failures", "counters"}

\* the reader's snapshot of a service: the fields still to be read, and the
\* values read; once all are read only the verdict is kept: whether the
\* values were those of the service at some instant while they were read
NoSnap == [svc |-> NoService, pending |-> {}, state |-> "-", failures |-> 0,
           counters |-> <<0, 0, 0>>, verdict |-> "-"]

\* the values of a snapshot, in the order of Instant
Reported(s) == <<s.state, s.failures>> \o s.counters

----------------------------------------------------------------------------
(* Initial state: main() has run *)

CBInitial ==
    /\ circuitBreakers =
         [s \in StartupNames |-> NewCircuitBreaker(FailureThreshold, Timeout)]
    /\ serviceMetrics = [s \in StartupNames |-> NewServiceMetrics]
    /\ pc = [p \in Procs |-> "idle"]
    /\ svc = [p \in Procs |-> NoService]
    /\ probe = [p \in Procs |-> FALSE]
    /\ invoked = [p \in Procs |-> 0]
    /\ ret = [p \in Procs |-> "none"]
    /\ streak = [s \in StartupNames |-> 0]

\* NewRateLimiter: no bucket yet
RLInitial ==
    /\ rlBuckets = <<>>
    /\ rlObj = <<>>
    /\ sweepFree = [buckets |-> <<>>, obj |-> <<>>,
                    ptr |-> [p \in Procs |-> 0], allowed |-> "none"]
    /\ apc = [p \in Procs |-> "idle"]
    /\ akey = [p \in Procs |-> NoKey]
    /\ aptr = [p \in Procs |-> 0]
    /\ allowed = "none"

\* package middleware's variables after InitJWT
JWTInitial ==
    /\ tokenBlacklist = <<>>
    /\ vres = [token |-> NoToken, err |-> "none"]
    /\ revokedOwn = {}

\* no request is being served
ReqInitial ==
    /\ rpc = [p \in Procs |-> "idle"]
    /\ req = [p \in Procs |-> NoRequest]
    /\ resp = NoResponse
    /\ loggedOut = {}
    /\ auditLog = NoRecord

\* no status is being read
StatInitial ==
    /\ snap = NoSnap
    /\ hist = {}

Init ==
    /\ now = 0
    /\ CBInitial
    /\ RLInitial
    /\ JWTInitial
    /\ ReqInitial
    /\ StatInitial

----------------------------------------------------------------------------
(* Actions *)

\* operations counted in the metrics so far, plus the calls in progress
Started ==
    LET RECURSIVE Sum(_)
        Sum(S) == IF S = {} THEN 0
                  ELSE LET s == CHOOSE x \in S : TRUE
                       IN  serviceMetrics[s].TotalCalls + Sum(S \ {s})
    IN  Sum(DOMAIN serviceMetrics) + Cardinality({p \in Procs : pc[p] # "idle"})

\* the call of p returns err: its locals are dropped
Return(p, err) ==
    /\ pc' = [pc EXCEPT ![p] = "idle"]
    /\ svc' = [svc EXCEPT ![p] = NoService]
    /\ probe' = [probe EXCEPT ![p] = FALSE]
    /\ invoked' = [invoked EXCEPT ![p] = 0]
    /\ ret' = [ret EXCEPT ![p] = err]

\* what GetAllStatus reports on a service: state, failures, total_calls,
\* success_calls, failure_calls
Instant(cbs, ms, s) ==
    <<cbs[s].state, cbs[s].failures, ms[s].TotalCalls, ms[s].SuccessCalls,
      ms[s].FailureCalls>>

\* GetAllStatus is at work on a service
Reading == snap.pending # {}

\* the history of the service being read, once its breaker and metrics are
\* cbs and ms
Recorded(cbs, ms) ==
    IF Reading THEN hist \cup {Instant(cbs, ms, snap.svc)} ELSE hist

\* the clock advances
Tick ==
    /\ now < MaxTime
    /\ now' = now + 1
    /\ UNCHANGED <<cbVars, rlVars, jwtVars, statVars, reqVars>>

\* circuitbreaker.Init(serviceName, ...) for a name not registered yet
CBInit(serviceName) ==
    /\ serviceName \notin DOMAIN circuitBreakers
    /\ circuitBreakers' = circuitBreakers @@
         (serviceName :> NewCircuitBreaker(FailureThreshold, Timeout))
    /\ serviceMetrics' = serviceMetrics @@ (serviceName :> NewServiceMetrics)
    /\ streak' = streak @@ (serviceName :> 0)
    /\ UNCHANGED <<now, pc, svc, probe, invoked, ret, rlVars,
                   jwtVars, statVars, reqVars>>

\* goroutine p enters ExternalService.Call(serviceName, ...)
CallEnter(p, serviceName) ==
    /\ pc[p] = "idle"
    /\ Started < MaxCalls
    /\ pc' = [pc EXCEPT ![p] = "resolve"]
    /\ svc' = [svc EXCEPT ![p] = serviceName]
    /\ UNCHANGED <<now, circuitBreakers, serviceMetrics, probe, invoked, ret,
                   streak, rlVars, jwtVars, statVars>>

\* some caller of the package calls ExternalService.Call(serviceName, ...)
Invoke(p, serviceName) ==
    /\ CallEnter(p, serviceName)
    /\ UNCHANGED reqVars

\* Call lines 31-48: the switch on the name, then circuitbreaker.Get
Dispatch(p) ==
    /\ pc[p] = "resolve"
    /\ IF Resolve(svc[p]) = "unknown"
       THEN Return(p, "unknown_service")
       ELSE IF ~Get(svc[p])
       THEN Return(p, "not_initialized")
       ELSE /\ pc' = [pc EXCEPT ![p] = "lock"]
            /\ UNCHANGED <<svc, probe, invoked, ret>>
    /\ UNCHANGED <<now, circuitBreakers, serviceMetrics, streak, rlVars,
                   jwtVars, statVars, reqVars>>

\* cb.Call lines 87-100: take the mutex, fail fast or start the operation
Acquire(p) ==
    /\ pc[p] = "lock"
    /\ MutexFree(svc[p])
    /\ LET cb == circuitBreakers[svc[p]] IN
       IF GateRejects(cb)
       THEN /\ Return(p, "circuit_open")
            /\ circuitBreakers' =
                 [circuitBreakers EXCEPT ![svc[p]] = Rejected(cb)]
       ELSE /\ pc' = [pc EXCEPT ![p] = "fn"]
            /\ circuitBreakers' =
                 [circuitBreakers EXCEPT ![svc[p]] = AfterGate(cb)]
            /\ probe' = [probe EXCEPT ![p] = (cb.state = "open")]
            /\ invoked' = [invoked EXCEPT ![p] = @ + 1]
            /\ UNCHANGED <<svc, ret>>
    /\ UNCHANGED <<now, serviceMetrics, streak, rlVars, jwtVars, snap,
                   reqVars>>
    /\ hist' = Recorded(circuitBreakers', serviceMetrics')

\* cb.Call lines 100-134: the operation returns, the breaker and the metrics
\* are updated, the mutex is released
FnReturn(p, r) ==
    /\ pc[p] = "fn"
    /\ LET s      == svc[p]
           err    == makeHTTPCall(r)
           failed == err # "nil"
           cb1    == AfterResult(circuitBreakers[s], failed)
       IN  /\ circuitBreakers' = [circuitBreakers EXCEPT ![s] = cb1]
           /\ serviceMetrics' = [serviceMetrics EXCEPT
                  ![s] = MetricsAfterResult(@, failed, cb1)]
           /\ streak' = [streak EXCEPT ![s] = IF failed THEN @ + 1 ELSE 0]
           /\ Return(p, err)
    /\ UNCHANGED <<now, rlVars, jwtVars, snap, reqVars>>
    /\ hist' = Recorded(circuitBreakers', serviceMetrics')

\* a reset that closes the breaker and keeps the failure counter
AfterResetKeepingFailures(cb) == [cb EXCEPT !.state = "closed"]

\* cb.Reset(): the breaker after lines 168-169
AfterReset(cb) == [cb EXCEPT !.state = "closed", !.failures = 0]

\* ResetByName(serviceName) for a registered name -> cb.Reset(), which needs
\* the breaker's mutex
ResetByName(serviceName) ==
    /\ serviceName \in DOMAIN circuitBreakers
    /\ MutexFree(serviceName)
    /\ circuitBreakers' = [circuitBreakers EXCEPT
           ![serviceName] = AfterReset(@)]
    /\ streak' = [streak EXCEPT ![serviceName] = 0]
    /\ UNCHANGED <<now, serviceMetrics, pc, svc, probe, invoked, ret,
                   rlVars, jwtVars, snap>>
    /\ hist' = Recorded(circuitBreakers', serviceMetrics')

\* some caller of the package resets a breaker
Reset(serviceName) ==
    /\ ResetByName(serviceName)
    /\ UNCHANGED reqVars

\* GetAllStatus comes to serviceName in its loop over the registry
GetAllStatus(serviceName) ==
    /\ ~Reading
    /\ serviceName \in DOMAIN circuitBreakers
    /\ snap' = [NoSnap EXCEPT !.svc = serviceName, !.pending = StatusFields]
    /\ hist' = {Instant(circuitBreakers, serviceMetrics, serviceName)}
    /\ UNCHANGED <<now, cbVars, rlVars, jwtVars, reqVars>>

\* GetAllStatus reads one field of the map literal of lines 194-202: the
\* state through GetState, which takes the breaker's read lock, the others
\* without any lock; Go leaves the order of the plain reads and the call open
ReadStatus(field) ==
    /\ field \in snap.pending
    /\ field = "state" => MutexFree(snap.svc)
    /\ LET cb == circuitBreakers[snap.svc]
           m  == serviceMetrics[snap.svc]
           s1 == [snap EXCEPT !.pending = @ \ {field}]
           s2 == IF field = "state" THEN [s1 EXCEPT !.state = cb.state]
                 ELSE IF field = "failures"
                 THEN [s1 EXCEPT !.failures = cb.failures]
                 ELSE [s1 EXCEPT !.counters =
                          <<m.TotalCalls, m.SuccessCalls, m.FailureCalls>>]
       IN  IF s2.pending # {}
           THEN snap' = s2 /\ hist' = hist
           ELSE /\ snap' = [NoSnap EXCEPT !.svc = snap.svc, !.verdict =
                               IF Reported(s2) \in hist THEN "consistent"
                               ELSE "torn"]
                /\ hist' = {}
    /\ UNCHANGED <<now, cbVars, rlVars, jwtVars, reqVars>>

Next ==
    \/ Tick
    \/ \E p \in Procs, s \in ServiceNames : Invoke(p, s)
    \/ \E p \in Procs : Dispatch(p)
    \/ \E p \in Procs : Acquire(p)
    \/ \E p \in Procs, r \in Responses : FnReturn(p, r)
    \/ \E s \in ServiceNames : Reset(s)

Spec == Init /\ [][Next]_vars

\* calls on the two services main registers a breaker for
PairNext ==
    \/ Tick
    \/ \E p \in Procs, s \in StartupNames : Invoke(p, s)
    \/ \E p \in Procs : Dispatch(p)
    \/ \E p \in Procs : Acquire(p)
    \/ \E p \in Procs, r \in Responses : FnReturn(p, r)

SpecPair == Init /\ [][PairNext]_vars

\* the service whose downstream recovers
HealService == "api-beheerder"

\* the instant from which the downstream answers every invocation well: the
\* latest one for which every cooldown started before it ends within the
\* modelled time
HealTime == MaxTime - Timeout + 1

\* the operation returns; from HealTime on it returns without error
HealReturn(p, r) ==
    /\ now >= HealTime => makeHTTPCall(r) = "nil"
    /\ FnReturn(p, r)

\* calls on one breaker whose downstream recovers; nobody resets it
HealNext ==
    \/ Tick
    \/ \E p \in Procs : Invoke(p, HealService)
    \/ \E p \in Procs : Dispatch(p)
    \/ \E p \in Procs : Acquire(p)
    \/ \E p \in Procs, r \in Responses : HealReturn(p, r)

\* time passes, calls keep arriving while the caller's budget lasts, a
\* goroutine that can go on does, and the HTTP client returns
HealFairness ==
    /\ WF_vars(Tick)
    /\ WF_vars(\E p \in Procs : Invoke(p, HealService))
    /\ \A p \in Procs :
          /\ WF_vars(Dispatch(p))
          /\ WF_vars(Acquire(p))
          /\ WF_vars(\E r \in Responses : HealReturn(p, r))

SpecHeal == Init /\ [][HealNext]_vars /\ HealFairness

\* the goroutine that calls while another reads the status
StatusCallers == {1}

\* calls and resets on one service while its status is read
StatusNext ==
    \/ Tick
    \/ \E p \in StatusCallers : Invoke(p, "api-beheerder")
    \/ \E p \in StatusCallers : Dispatch(p)
    \/ \E p \in StatusCallers : Acquire(p)
    \/ \E p \in StatusCallers, r \in Responses : FnReturn(p, r)
    \/ Reset("api-beheerder")
    \/ GetAllStatus("api-beheerder")
    \/ \E field \in StatusFields : ReadStatus(field)

SpecStatus == Init /\ [][StatusNext]_vars

----------------------------------------------------------------------------
(* middleware.RateLimiter *)

\* the keys the limiter is asked about
Keys == {"ip-A"}

\* rl.cleanupInt
CleanupInt == Interval * CleanupFactor

\* &bucket{tokens: rl.rate, lastRefill: time.Now()}; used counts the Allow
\* calls the bucket has served since its last refill (at most Rate + 1 are
\* told apart), refilled tells that Allow has refilled it, touched is the
\* time of the last Allow call that came to the bucket
NewBucket ==
    [tokens |-> Rate, lastRefill |-> now, used |-> 0, refilled |-> FALSE,
     touched |-> now]

\* a refill at every call
RefillDueAlways(b) == TRUE

\* elapsed >= rl.interval
RefillDue(b) == now - b.lastRefill >= Interval

\* the bucket as Allow's check sees it, after the refill if one is due
Refilled(b) ==
    IF RefillDue(b)
    THEN [b EXCEPT !.tokens = Rate, !.lastRefill = now, !.used = 0,
                   !.refilled = TRUE]
    ELSE b

\* a check that lets a request through with no token left
HasTokenLenient(b) == b.tokens >= 0

\* b.tokens > 0
HasToken(b) == b.tokens > 0

\* the bucket after Allow's check
Taken(b) ==
    LET u == IF b.used <= Rate THEN b.used + 1 ELSE b.used
    IN  IF HasToken(b)
        THEN [b EXCEPT !.tokens = @ - 1, !.used = u, !.touched = now]
        ELSE [b EXCEPT !.used = u, !.touched = now]

\* the smallest bucket id not in use
FreshId == CHOOSE i \in 1..(Cardinality(DOMAIN rlObj) + 1) : i \notin DOMAIN rlObj

\* the bucket objects still reachable from the map or from a goroutine
Live(objs, buckets, ptrs) ==
    LET ids == {buckets[k] : k \in DOMAIN buckets} \cup {ptrs[p] : p \in Procs}
    IN  [i \in DOMAIN objs \cap ids |-> objs[i]]

\* Allow lines 205-207 in the limiter without sweep
SweepFreeEnter(p, key) ==
    [sweepFree EXCEPT !.ptr[p] = IF key \in DOMAIN sweepFree.buckets
                                 THEN sweepFree.buckets[key] ELSE 0]

\* Allow lines 209-217 in the limiter without sweep: a bucket is made when
\* its own lookup found none
SweepFreeCreate(p) ==
    IF sweepFree.ptr[p] # 0 THEN sweepFree
    ELSE LET id      == CHOOSE i \in 1..(Cardinality(DOMAIN sweepFree.obj) + 1) :
                            i \notin DOMAIN sweepFree.obj
             buckets == [k \in DOMAIN sweepFree.buckets \cup {akey[p]} |->
                            IF k = akey[p] THEN id ELSE sweepFree.buckets[k]]
             ptrs    == [sweepFree.ptr EXCEPT ![p] = id]
         IN  [sweepFree EXCEPT
                 !.buckets = buckets, !.ptr = ptrs,
                 !.obj = Live(sweepFree.obj @@ (id :> NewBucket), buckets, ptrs)]

\* Allow lines 219-236 in the limiter without sweep
SweepFreeTake(p) ==
    LET b    == Refilled(sweepFree.obj[sweepFree.ptr[p]])
        ptrs == [sweepFree.ptr EXCEPT ![p] = 0]
    IN  [sweepFree EXCEPT
            !.allowed = IF HasToken(b) THEN "allow" ELSE "deny",
            !.ptr = ptrs,
            !.obj = Live([sweepFree.obj EXCEPT ![sweepFree.ptr[p]] = Taken(b)],
                         sweepFree.buckets, ptrs)]

\* Allow lines 205-207: look the key up under the read lock
AllowEnter(p, key) ==
    /\ apc[p] = "idle"
    /\ akey' = [akey EXCEPT ![p] = key]
    /\ IF key \in DOMAIN rlBuckets
       THEN /\ aptr' = [aptr EXCEPT ![p] = rlBuckets[key]]
            /\ apc' = [apc EXCEPT ![p] = "bucket"]
       ELSE /\ aptr' = aptr
            /\ apc' = [apc EXCEPT ![p] = "create"]
    /\ sweepFree' = SweepFreeEnter(p, key)
    /\ UNCHANGED <<now, cbVars, jwtVars, statVars, rlBuckets, rlObj, allowed>>

\* some caller of the limiter calls Allow(key)
AllowLookup(p, key) ==
    /\ AllowEnter(p, key)
    /\ UNCHANGED reqVars

\* Allow lines 209-217: no bucket was found: make one and store it
AllowCreate(p) ==
    /\ apc[p] = "create"
    /\ LET id      == FreshId
           buckets == [k \in DOMAIN rlBuckets \cup {akey[p]} |->
                          IF k = akey[p] THEN id ELSE rlBuckets[k]]
           ptrs    == [aptr EXCEPT ![p] = id]
       IN  /\ rlBuckets' = buckets
           /\ aptr' = ptrs
           /\ rlObj' = Live(rlObj @@ (id :> NewBucket), buckets, ptrs)
    /\ apc' = [apc EXCEPT ![p] = "bucket"]
    /\ sweepFree' = SweepFreeCreate(p)
    /\ UNCHANGED <<now, cbVars, jwtVars, statVars, reqVars, akey, allowed>>

\* Allow lines 219-236: under the bucket's lock, refill if due, take a token
AllowTake(p) ==
    /\ apc[p] = "bucket"
    /\ LET b    == Refilled(rlObj[aptr[p]])
           ptrs == [aptr EXCEPT ![p] = 0]
       IN  /\ allowed' = IF HasToken(b) THEN "allow" ELSE "deny"
           /\ aptr' = ptrs
           /\ rlObj' = Live([rlObj EXCEPT ![aptr[p]] = Taken(b)], rlBuckets,
                            ptrs)
    /\ apc' = [apc EXCEPT ![p] = "idle"]
    /\ akey' = [akey EXCEPT ![p] = NoKey]
    /\ sweepFree' = SweepFreeTake(p)
    /\ UNCHANGED <<now, cbVars, jwtVars, statVars, rlBuckets>>

\* Allow returns to a caller of the limiter
AllowBucket(p) ==
    /\ AllowTake(p)
    /\ UNCHANGED reqVars

\* a sweep that also removes at the limit
StaleAtLimit(b) == now - b.lastRefill >= CleanupInt

\* now.Sub(b.lastRefill) > rl.cleanupInt
Stale(b) == now - b.lastRefill > CleanupInt

\* one pass of cleanup's loop body, run under rl.mu; the ticker's first tick
\* comes after cleanupInt and a tick may be served late
Cleanup ==
    /\ now >= CleanupInt
    /\ LET keep    == {k \in DOMAIN rlBuckets : ~Stale(rlObj[rlBuckets[k]])}
           buckets == [k \in keep |-> rlBuckets[k]]
       IN  /\ rlBuckets' = buckets
           /\ rlObj' = Live(rlObj, buckets, aptr)
    /\ UNCHANGED <<now, cbVars, jwtVars, statVars, reqVars, apc, akey, aptr,
                   allowed, sweepFree>>

\* the limiter's clock advances
RLTick ==
    /\ now < RLMaxTime
    /\ now' = now + 1
    /\ UNCHANGED <<cbVars, rlVars, jwtVars, statVars, reqVars>>

RLNext ==
    \/ RLTick
    \/ \E p \in Procs, k \in Keys : AllowLookup(p, k)
    \/ \E p \in Procs : AllowCreate(p)
    \/ \E p \in Procs : AllowBucket(p)
    \/ Cleanup

SpecRL == Init /\ [][RLNext]_vars

----------------------------------------------------------------------------
(* Rate limiter: the sweep *)

\* C33: whatever the interleaving of Allow calls and sweeps, every Allow
\* returns what it returns in the limiter without sweep run on the same calls.
C33_SweepNeverChangesAnAnswer == allowed = sweepFree.allowed

C40Step ==
    Cleanup =>
        \A k \in DOMAIN rlBuckets :
            LET b       == rlObj[rlBuckets[k]]
                removed == k \notin DOMAIN rlBuckets'
            IN  /\ removed <=> now - b.lastRefill > CleanupFactor * Interval
                /\ now - b.touched <= (CleanupFactor - 1) * Interval
                   => ~removed
                /\ now - b.touched > CleanupFactor * Interval => removed

\* C40: a sweep at time t removes a bucket exactly when its lastRefill is more
\* than 10 intervals before t; so it keeps every bucket an Allow call came to
\* within the last 9 intervals and removes every bucket no Allow call came to
\* within the last 10 intervals.
C40_SweepRemovesExactlyStale == [][C40Step]_vars

\* Allow has answered, and a later sweep has emptied the map
C40_Witness ==
    /\ allowed # "none"
    /\ now > CleanupInt
    /\ rlBuckets = <<>>
    /\ \A p \in Procs : apc[p] = "idle"

----------------------------------------------------------------------------
(* Token validation: actions *)

\* a caller validates a token
Validate(tok) ==
    /\ vres' = [token |-> tok, err |-> ValidateJWT(tok)]
    /\ UNCHANGED <<now, cbVars, rlVars, reqVars, statVars, tokenBlacklist,
                   revokedOwn>>

\* BlacklistToken(tokenString, expiresAt)
BlacklistToken(tok, expiresAt) ==
    /\ tokenBlacklist' =
         [t \in DOMAIN tokenBlacklist \cup {tok} |->
             IF t = tok THEN expiresAt ELSE tokenBlacklist[t]]
    /\ revokedOwn' = IF tok.hasExp /\ expiresAt = tok.exp
                     THEN revokedOwn \cup {tok}
                     ELSE revokedOwn \ {tok}
    /\ UNCHANGED <<now, cbVars, rlVars, reqVars, statVars, vres>>

\* one pass of cleanupBlacklist's loop body; the first tick comes after an
\* hour and a tick may be served late
Sweep ==
    /\ now >= SweepInterval
    /\ tokenBlacklist' =
         [t \in {u \in DOMAIN tokenBlacklist : ~Swept(tokenBlacklist[u])} |->
             tokenBlacklist[t]]
    /\ UNCHANGED <<now, cbVars, rlVars, reqVars, statVars, vres, revokedOwn>>

\* the validator's clock advances
JWTTick ==
    /\ now < JWTMaxTime
    /\ now' = now + 1
    /\ UNCHANGED <<cbVars, rlVars, jwtVars, statVars, reqVars>>

JWTNext ==
    \/ JWTTick
    \/ \E tok \in Tokens : Validate(tok)
    \/ \E tok \in Tokens, e \in 1..MaxExpiry : BlacklistToken(tok, e)
    \/ Sweep

SpecJWT == Init /\ [][JWTNext]_vars

----------------------------------------------------------------------------
(* Requests to the protected and admin groups: actions *)

\* the requests that have passed JWTAuthMiddleware and are not answered yet
InFlight == Cardinality({p \in Procs : rpc[p] # "idle"})

\* AuditLogger writes its record after c.Next() has returned; a panic in the
\* chain unwinds through it to gin.Recovery, which was registered before it
AuditRecords(panicked) == IF EnableAuditLogging /\ ~panicked THEN 1 ELSE 0

\* the response as the client and the audit log get it
Written(status, code, detail, ran, panicked) ==
    [status |-> status, code |-> code, detail |-> detail, ran |-> ran,
     audited |-> AuditRecords(panicked), retry_after |-> 0]

\* the chain of p has written its response after the middleware in ran:
\* the request is over
Finish(p, ran, status, code, detail) ==
    /\ rpc' = [rpc EXCEPT ![p] = "idle"]
    /\ req' = [req EXCEPT ![p] = NoRequest]
    /\ resp' = Written(status, code, detail, ran, FALSE)

\* the handler chain of p writes its response and the request is over
Respond(p, status, code, detail) == Finish(p, req[p].ran, status, code, detail)

\* a request arrives and JWTAuthMiddleware runs on it; a token without exp
\* passes ValidateJWT and then claims.ExpiresAt.Unix() dereferences nil, which
\* gin.Recovery answers with 500
JWTAuthMiddleware(p, route, param, header) ==
    /\ rpc[p] = "idle" /\ pc[p] = "idle" /\ apc[p] = "idle"
    /\ InFlight < MaxInFlight
    /\ LET tok == extractToken(header)
           err == ValidateJWT(tok)
           r   == [route |-> route, param |-> param, header |-> header,
                   ran |-> <<"jwt">>]
           Answer(status, code, detail, panicked) ==
               /\ resp' = Written(status, code, detail, <<"jwt">>, panicked)
               /\ UNCHANGED <<rpc, req>>
       IN  IF header.kind = "none"
           THEN Answer(401, "MISSING_AUTH", "-", FALSE)
           ELSE IF header.kind = "bad"
           THEN Answer(401, "INVALID_AUTH_FORMAT", "-", FALSE)
           ELSE IF err # "nil"
           THEN Answer(401, "INVALID_TOKEN", err, FALSE)
           ELSE IF ~tok.hasExp
           THEN Answer(500, "-", "-", TRUE)
           ELSE /\ rpc' = [rpc EXCEPT ![p] = After(route, <<"jwt">>)]
                /\ req' = [req EXCEPT ![p] = r]
                /\ UNCHANGED resp
    /\ UNCHANGED <<now, cbVars, rlVars, jwtVars, statVars, loggedOut,
                   auditLog>>

\* RequireRoles("admin", "super_admin")
RequireRoles(p) ==
    /\ rpc[p] = "roles"
    /\ LET ran == Append(req[p].ran, "roles") IN
       IF Roles(req[p].header.token) \cap RequiredRoles = {}
       THEN Finish(p, ran, 403, "INSUFFICIENT_PERMISSIONS", "-")
       ELSE /\ rpc' = [rpc EXCEPT ![p] = After(req[p].route, ran)]
            /\ req' = [req EXCEPT ![p].ran = ran]
            /\ UNCHANGED resp
    /\ UNCHANGED <<now, cbVars, rlVars, jwtVars, statVars, loggedOut,
                   auditLog>>

\* RateLimitByUser calls limiter.Allow(userID)
LimitLookup(p) ==
    /\ rpc[p] = "ratelimit"
    /\ AllowEnter(p, LimiterKey(req[p].route, UserID(req[p].header.token)))
    /\ rpc' = [rpc EXCEPT ![p] = "limiting"]
    /\ req' = [req EXCEPT ![p].ran = Append(@, "ratelimit")]
    /\ UNCHANGED <<resp, loggedOut, auditLog>>

\* "retry_after": interval.Seconds()
RetryAfter == Interval

\* Allow returns to RateLimitByUser: 429 with the retry_after hint, or on to
\* the handler
LimitTake(p) ==
    /\ rpc[p] = "limiting"
    /\ AllowTake(p)
    /\ IF allowed' = "deny"
       THEN /\ rpc' = [rpc EXCEPT ![p] = "idle"]
            /\ req' = [req EXCEPT ![p] = NoRequest]
            /\ resp' = [Written(429, "RATE_LIMIT_EXCEEDED", "-", req[p].ran,
                                FALSE) EXCEPT !.retry_after = RetryAfter]
       ELSE /\ rpc' = [rpc EXCEPT ![p] = After(req[p].route, req[p].ran)]
            /\ UNCHANGED <<req, resp>>
    /\ UNCHANGED <<loggedOut, auditLog>>

\* GetUserInfo answers from the context
GetUserInfo(p) ==
    /\ rpc[p] = "handler"
    /\ req[p].route = "me"
    /\ Respond(p, 200, "-", "-")
    /\ UNCHANGED <<now, cbVars, rlVars, jwtVars, statVars, loggedOut,
                   auditLog>>

\* Logout, up to its call of the central management service
Logout(p) ==
    /\ rpc[p] = "handler"
    /\ req[p].route = "logout"
    /\ CallEnter(p, "central")
    /\ rpc' = [rpc EXCEPT ![p] = "called"]
    /\ UNCHANGED <<req, resp, loggedOut, auditLog>>

\* the message of a handler's error response: err.Error()
Message(err) == err

\* Logout, after the call has returned: 500 with the error's text, or 200;
\* the handler's err goes out of scope
LogoutReturn(p) ==
    /\ rpc[p] = "called"
    /\ req[p].route = "logout"
    /\ pc[p] = "idle"
    /\ IF ret[p] # "nil"
       THEN /\ Respond(p, 500, "AUTH_SERVICE_ERROR", Message(ret[p]))
            /\ UNCHANGED loggedOut
       ELSE /\ Respond(p, 200, "-", "-")
            /\ loggedOut' = loggedOut \cup {req[p].header.token}
    /\ ret' = [ret EXCEPT ![p] = "none"]
    /\ UNCHANGED <<now, circuitBreakers, serviceMetrics, pc, svc, probe,
                   invoked, streak, rlVars, jwtVars, statVars, auditLog>>

\* AdminHandlers.GetUsers, up to its call of the central management service
GetUsers(p) ==
    /\ rpc[p] = "handler"
    /\ req[p].route = "users"
    /\ CallEnter(p, "central")
    /\ rpc' = [rpc EXCEPT ![p] = "called"]
    /\ UNCHANGED <<req, resp, loggedOut, auditLog>>

\* AdminHandlers.GetUsers, after the call has returned
GetUsersReturn(p) ==
    /\ rpc[p] = "called"
    /\ req[p].route = "users"
    /\ pc[p] = "idle"
    /\ IF ret[p] # "nil"
       THEN Respond(p, 500, "SERVICE_ERROR", Message(ret[p]))
       ELSE Respond(p, 200, "-", "-")
    /\ ret' = [ret EXCEPT ![p] = "none"]
    /\ UNCHANGED <<now, circuitBreakers, serviceMetrics, pc, svc, probe,
                   invoked, streak, rlVars, jwtVars, statVars, loggedOut,
                   auditLog>>

\* ResetCircuitBreakerHandler
ResetCircuitBreakerHandler(p) ==
    /\ rpc[p] = "handler"
    /\ req[p].route = "reset"
    /\ IF req[p].param \in DOMAIN circuitBreakers
       THEN /\ ResetByName(req[p].param)
            /\ Respond(p, 200, "-", "-")
       ELSE /\ Respond(p, 404, "SERVICE_NOT_FOUND", "-")
            /\ UNCHANGED <<now, cbVars, rlVars, jwtVars, statVars>>
    /\ UNCHANGED <<loggedOut, auditLog>>

\* a request to the route arrives
Arrive(p, route) ==
    \E header \in Headers, param \in Params(route) :
        JWTAuthMiddleware(p, route, param, header)

\* AuditLogger around the rest of the chain, which answers with the status
\* or panics: the record is written after c.Next() has returned
AuditLogger(method, path, size, status, panicked) ==
    /\ EnableAuditLogging
    /\ auditLog' =
         IF panicked THEN auditLog
         ELSE [method |-> method, path |-> path, status |-> status,
               request_size |-> size,
               request_body |-> LogsBody(method, path, size),
               level |-> Level(status)]
    /\ UNCHANGED <<now, cbVars, rlVars, jwtVars, statVars, rpc, req, resp,
                   loggedOut>>

\* requests to the routes pass through AuditLogger
AuditNext ==
    \E r \in Routed, size \in BodySizes, status \in Statuses,
       panicked \in BOOLEAN :
        AuditLogger(r[1], r[2], size, status, panicked)

SpecAudit == Init /\ [][AuditNext]_vars

\* the protected group, with the breaker of the name its handlers use
\* registered; no bucket is old enough to be swept within MaxTime, and nothing
\* puts a token into the blacklist
AuthNext ==
    \/ Tick
    \/ CBInit("central")
    \/ \E p \in Procs, route \in {"logout", "me"} : Arrive(p, route)
    \/ \E p \in Procs : LimitLookup(p)
    \/ \E p \in Procs : AllowCreate(p)
    \/ \E p \in Procs : LimitTake(p)
    \/ \E p \in Procs : GetUserInfo(p)
    \/ \E p \in Procs : Logout(p)
    \/ \E p \in Procs : Dispatch(p)
    \/ \E p \in Procs : Acquire(p)
    \/ \E p \in Procs, r \in Responses : FnReturn(p, r)
    \/ \E p \in Procs : LogoutReturn(p)

SpecAuth == Init /\ [][AuthNext]_vars

\* both groups as main wires the service: under the names the handlers use
\* no breaker is registered, so every dispatch returns from Call's lookup
RoutesNext ==
    \/ Tick
    \/ \E p \in Procs, route \in Routes : Arrive(p, route)
    \/ \E p \in Procs : RequireRoles(p)
    \/ \E p \in Procs : LimitLookup(p)
    \/ \E p \in Procs : AllowCreate(p)
    \/ \E p \in Procs : LimitTake(p)
    \/ \E p \in Procs : GetUserInfo(p)
    \/ \E p \in Procs : Logout(p)
    \/ \E p \in Procs : LogoutReturn(p)
    \/ \E p \in Procs : GetUsers(p)
    \/ \E p \in Procs : GetUsersReturn(p)
    \/ \E p \in Procs : ResetCircuitBreakerHandler(p)
    \/ \E p \in Procs : Dispatch(p)

SpecRoutes == Init /\ [][RoutesNext]_vars

----------------------------------------------------------------------------
(* Circuit breaker and dispatcher: properties *)

\* the operations in flight on a service
Running(s) == {p \in Procs : pc[p] = "fn" /\ svc[p] = s}

\* p leaves the head of cb.Call in this step
PassesGate(p) == pc[p] = "lock" /\ pc'[p] # "lock"

C1Inv ==
    \A s \in DOMAIN circuitBreakers :
        (streak[s] >= FailureThreshold /\ Running(s) = {})
            => circuitBreakers[s].state = "open"

C1Step ==
    \A p \in Procs :
        (/\ PassesGate(p)
         /\ circuitBreakers[svc[p]].state = "open"
         /\ now - circuitBreakers[svc[p]].lastFailTime < Timeout)
        => /\ pc'[p] = "idle"
           /\ ret'[p] = "circuit_open"
           /\ invoked[p] = 0
           /\ Running(svc[p])' = Running(svc[p])
           /\ UNCHANGED <<circuitBreakers, serviceMetrics>>

\* C1: once failureThreshold or more operations in a row have failed on a
\* breaker that was Closed, the breaker is Open (whenever no operation is
\* running on it), and a call that reaches an Open breaker before the cooldown
\* has elapsed returns the circuit-open error without running its operation
\* and without touching the breaker or the metrics.
C1_OpenAfterThresholdFailsFast == []C1Inv /\ [][C1Step]_vars

\* a call has been rejected by a breaker that a streak of failures opened
C1_Witness ==
    /\ \E p \in Procs : ret[p] = "circuit_open"
    /\ \E s \in DOMAIN circuitBreakers :
          /\ streak[s] >= FailureThreshold
          /\ circuitBreakers[s].state = "open"
          /\ now - circuitBreakers[s].lastFailTime < Timeout

C2Step ==
    \A p \in Procs :
        /\ (/\ PassesGate(p)
            /\ circuitBreakers[svc[p]].state = "open"
            /\ now - circuitBreakers[svc[p]].lastFailTime >= Timeout)
           => /\ pc'[p] = "fn"
              /\ invoked'[p] = 1
              /\ probe'[p]
              /\ circuitBreakers'[svc[p]].state = "half-open"
        /\ (pc[p] = "fn" /\ probe[p] /\ pc'[p] = "idle")
           => /\ invoked[p] = 1
              /\ ret'[p] = "nil" =>
                    /\ circuitBreakers'[svc[p]].state = "closed"
                    /\ circuitBreakers'[svc[p]].failures = 0
              /\ ret'[p] # "nil" =>
                    /\ circuitBreakers'[svc[p]].state = "open"
                    /\ circuitBreakers'[svc[p]].lastFailTime = now

\* C2: the first call that reaches an Open breaker after the cooldown has
\* elapsed moves it to HalfOpen and runs its operation exactly once; when that
\* operation succeeds the breaker is Closed with failure counter zero, when it
\* fails the breaker is Open again with the failure time set to the time of
\* that failure (so the cooldown runs anew from there).
C2_ProbeOnceThenClosedOrOpen == [][C2Step]_vars

\* a probe has failed and reopened the breaker: the counter is past the
\* threshold, which only a failure in HalfOpen brings about
C2_Witness ==
    \E s \in DOMAIN circuitBreakers :
        /\ circuitBreakers[s].state = "open"
        /\ circuitBreakers[s].failures > FailureThreshold
        /\ circuitBreakers[s].lastFailTime >= Timeout

\* C3: at most one operation runs on a breaker at a time; while the breaker
\* is HalfOpen the one that runs is the probe that made it HalfOpen, so no
\* second operation starts before the probe's outcome has moved the breaker to
\* Closed or Open.
C3_SingleProbe ==
    \A s \in DOMAIN circuitBreakers :
        /\ Cardinality(Running(s)) <= 1
        /\ circuitBreakers[s].state = "half-open"
              => \E p \in Running(s) : probe[p]

\* a probe is running while a second call, arrived after the cooldown, waits
\* for the breaker
C3_Witness ==
    \E p, q \in Procs :
        /\ p # q
        /\ pc[p] = "fn" /\ probe[p]
        /\ pc[q] = "lock" /\ svc[q] = svc[p]
        /\ circuitBreakers[svc[p]].state = "half-open"

\* the downstream does not answer, or answers with a server-error status
FailedDownstream(r) ==
    \/ r.transport \in {"error", "timeout"}
    \/ r.transport = "ok" /\ r.status >= 500

C8Step ==
    \A p \in Procs, r \in Responses :
        (FailedDownstream(r) /\ FnReturn(p, r))
        => LET old == circuitBreakers[svc[p]]
               new == circuitBreakers'[svc[p]]
           IN  /\ ret'[p] # "nil"
               /\ new.failures = old.failures + 1
               /\ new.lastFailTime = now
               /\ new.failures >= FailureThreshold => new.state = "open"
               /\ serviceMetrics'[svc[p]].FailureCalls =
                     serviceMetrics[svc[p]].FailureCalls + 1

\* C8: a downstream operation that ends in a transport error, a timeout or a
\* 5xx status returns an error to the breaker, which increments its failure
\* counter, records the failure time, and is Open once the counter has
\* reached the threshold.
C8_DownstreamFailureCounts == [][C8Step]_vars

\* failed downstream operations have opened a breaker just now
C8_Witness ==
    /\ \E p \in Procs, r \in Responses :
          FailedDownstream(r) /\ ret[p] = makeHTTPCall(r)
    /\ \E s \in DOMAIN circuitBreakers :
          /\ circuitBreakers[s].state = "open"
          /\ circuitBreakers[s].failures >= FailureThreshold
          /\ circuitBreakers[s].lastFailTime = now
          /\ serviceMetrics[s].FailureCalls >= FailureThreshold

C9Step ==
    \A p \in Procs, r \in Responses :
        (r.transport = "ok" /\ ~r.decodes /\ FnReturn(p, r))
        => LET old == circuitBreakers[svc[p]]
               new == circuitBreakers'[svc[p]]
           IN  /\ ret'[p] = "decode_failed"
               /\ new.failures = old.failures
               /\ old.state # "open" => new.state # "open"

\* C9: when the downstream answers with a body that cannot be decoded, the
\* dispatcher returns a decode error, the breaker's failure counter is not
\* incremented, and the breaker does not move to Open because of it.
C9_DecodeErrorNotCounted == [][C9Step]_vars

C10Step ==
    \A p \in Procs :
        (/\ pc[p] = "resolve"
         /\ svc[p] \notin BeheerderNames \cup CentralNames
         /\ pc'[p] # "resolve")
        => /\ pc'[p] = "idle"
           /\ ret'[p] = "unknown_service"
           /\ \A q \in Procs : pc'[q] = "fn" => pc[q] = "fn"
           /\ UNCHANGED <<circuitBreakers, serviceMetrics>>

C10Inv ==
    \A p \in Procs :
        pc[p] \in {"lock", "fn"} => svc[p] \in BeheerderNames \cup CentralNames

\* C10: a dispatcher call with a service name outside the configured ones
\* returns the unknown-service error at once: it never waits for a breaker or
\* starts a network operation, and it leaves every breaker and all metrics as
\* they were.
C10_UnknownServiceFailsFast == []C10Inv /\ [][C10Step]_vars

\* a call with an unknown name has returned its error while another call is
\* in progress
C10_Witness ==
    \E p, q \in Procs : ret[p] = "unknown_service" /\ pc[q] = "fn"

\* C15: whenever no operation is running on a breaker, the CircuitOpen flag
\* of the service's metrics is true exactly when the breaker is Open.
C15_FlagMatchesState ==
    \A s \in DOMAIN circuitBreakers :
        Running(s) = {}
        => (serviceMetrics[s].CircuitOpen <=> circuitBreakers[s].state = "open")

\* C16: the state, the failure count and the call counters that GetAllStatus
\* reports for a service are values the service held together at one instant
\* between the start and the end of the read.
C16_StatusIsOneInstant == snap.verdict # "torn"

\* C17: a read of the breaker's state is never kept waiting: whenever
\* GetAllStatus has its state read ahead of it, also while a downstream
\* operation is in flight on that breaker, the read can take place.
C17_StateReadNeverWaits ==
    "state" \in snap.pending => ENABLED ReadStatus("state")

\* C18: a call that has reached a Closed breaker is not kept waiting by
\* another call's operation on the same breaker: it can start its own
\* operation while the other one is in flight.
C18_ClosedCallsRunTogether ==
    \A p \in Procs :
        (pc[p] = "lock" /\ circuitBreakers[svc[p]].state = "closed")
        => MutexFree(svc[p])

C19Step ==
    /\ \A s \in ServiceNames :
          Reset(s)
          => LET old == circuitBreakers[s]
                 new == circuitBreakers'[s]
             IN  /\ new.state = "closed"
                 /\ new.failures = 0
                 /\ new = [old EXCEPT !.state = "closed", !.failures = 0]
                 /\ old.state = "closed" => new = [old EXCEPT !.failures = 0]
                 /\ (old.state = "closed" /\ old.failures = 0)
                       => circuitBreakers' = circuitBreakers
                 /\ UNCHANGED <<serviceMetrics, pc, svc, probe, invoked, ret>>
    /\ \A p \in Procs :
          (PassesGate(p) /\ circuitBreakers[svc[p]].state = "closed")
          => pc'[p] = "fn" /\ invoked'[p] = 1

\* C19: a reset leaves the breaker Closed with failure counter zero and
\* touches nothing else, whatever the state before; on a Closed breaker only
\* the failure counter can change, and on a breaker that is Closed with
\* counter zero (as a reset leaves it) a reset changes nothing; a call that
\* reaches a Closed breaker runs its operation, whether or not the time of
\* the last failure is within the cooldown.
C19_ResetClosesAndZeroes == [][C19Step]_vars

\* an operation is running within the cooldown of a breaker that failures
\* had opened and a reset has closed: no call has ever succeeded on it
C19_Witness ==
    \E p \in Procs :
        /\ pc[p] = "fn" /\ ~probe[p]
        /\ circuitBreakers[svc[p]].state = "closed"
        /\ circuitBreakers[svc[p]].failures = 0
        /\ now - circuitBreakers[svc[p]].lastFailTime < Timeout
        /\ serviceMetrics[svc[p]].FailureCalls >= FailureThreshold
        /\ serviceMetrics[svc[p]].SuccessCalls = 0

\* the breaker s changes its state in this step
Changes(s) == circuitBreakers'[s].state # circuitBreakers[s].state

\* an operation on s returns in this step, with success or with an error
Returns(s, ok) ==
    \E p \in Procs :
        /\ pc[p] = "fn" /\ svc[p] = s /\ pc'[p] = "idle"
        /\ (ret'[p] = "nil") = ok

\* one of the four transitions of a call
CallTransition(s) ==
    LET old == circuitBreakers[s]
        new == circuitBreakers'[s]
    IN  \/ /\ old.state = "closed" /\ new.state = "open"
           /\ Returns(s, FALSE)
           /\ new.failures = old.failures + 1
           /\ new.failures >= FailureThreshold
        \/ /\ old.state = "open" /\ new.state = "half-open"
           /\ now - old.lastFailTime >= Timeout
        \/ /\ old.state = "half-open" /\ new.state = "closed"
           /\ Returns(s, TRUE)
        \/ /\ old.state = "half-open" /\ new.state = "open"
           /\ Returns(s, FALSE)

\* the transition of a reset
ResetTransition(s) ==
    /\ circuitBreakers[s].state = "open"
    /\ circuitBreakers'[s].state = "closed"
    /\ circuitBreakers'[s].failures = 0
    /\ Reset(s)

\* C20 as stated: every change of a breaker's state is Closed to Open when
\* the failure counter reaches the threshold, Open to HalfOpen when the
\* cooldown has elapsed, HalfOpen to Closed when the call succeeds, or
\* HalfOpen to Open when the call fails.
C20_OnlyCallTransitions ==
    [][\A s \in DOMAIN circuitBreakers : Changes(s) => CallTransition(s)]_vars

\* C20, amended: every change of a breaker's state is one of the four
\* transitions of a call, or Open to Closed by a reset.
C20_CallOrResetTransitions ==
    [][\A s \in DOMAIN circuitBreakers :
          Changes(s) => CallTransition(s) \/ ResetTransition(s)]_vars

\* a reset has just closed a breaker that failures had opened
C20_Witness ==
    \E s \in DOMAIN circuitBreakers :
        /\ Running(s) = {}
        /\ circuitBreakers[s].state = "closed"
        /\ circuitBreakers[s].failures = 0
        /\ circuitBreakers[s].lastFailTime = now
        /\ serviceMetrics[s].FailureCalls >= FailureThreshold
        /\ serviceMetrics[s].SuccessCalls = 0

C21Step ==
    \A s \in DOMAIN circuitBreakers :
        LET old == circuitBreakers[s]
            new == circuitBreakers'[s]
        IN  /\ Returns(s, TRUE) => new.failures = 0 /\ streak'[s] = 0
            /\ (old.state = "closed" /\ new.state = "open")
                  => /\ Returns(s, FALSE)
                     /\ streak'[s] >= FailureThreshold
            /\ new.state = "closed" => new.failures = streak'[s]

\* C21: an operation that returns without error leaves the failure counter
\* at zero; a Closed breaker opens only at the return of a failing operation
\* that completes a run of at least failureThreshold failures in a row, and
\* while the breaker is Closed its counter is the length of the current run,
\* so failures on the two sides of a success are never added up.
C21_SuccessZeroesFailures == [][C21Step]_vars

\* a failure, a success and a failure again have left the breaker Closed
\* with counter 1, although it has seen failureThreshold failures
C21_Witness ==
    \E s \in DOMAIN circuitBreakers :
        /\ now = 0
        /\ Running(s) = {}
        /\ circuitBreakers[s].state = "closed"
        /\ circuitBreakers[s].failures = 1
        /\ serviceMetrics[s].FailureCalls >= FailureThreshold
        /\ serviceMetrics[s].SuccessCalls >= 1

\* C27: every call of cb.Call is recorded once in the metrics of its service:
\* when the call returns, be it from its operation or rejected at the head
\* because the breaker is Open, TotalCalls of the service has grown by one.
C27_EveryCallRecorded ==
    [][\A p \in Procs :
          (pc[p] \in {"lock", "fn"} /\ pc'[p] = "idle")
          => serviceMetrics'[svc[p]].TotalCalls =
                serviceMetrics[svc[p]].TotalCalls + 1]_vars

\* the call of p moves on in this step
Moves(p) == pc[p] # "idle" /\ pc'[p] # pc[p]

C30Step ==
    \A p \in Procs, s \in DOMAIN circuitBreakers :
        (Moves(p) /\ s # svc[p])
        => /\ circuitBreakers'[s] = circuitBreakers[s]
           /\ serviceMetrics'[s] = serviceMetrics[s]
           /\ streak'[s] = streak[s]

\* a call waiting for its breaker's mutex can take it unless a call is in
\* flight on that same breaker
C30Inv ==
    \A p \in Procs :
        (pc[p] = "lock" /\ Running(svc[p]) = {}) => ENABLED Acquire(p)

\* C30: a step of a call on one service leaves the breaker and the metrics
\* of every other service as they are, and a call that has come to its
\* breaker goes on whatever calls are in flight on other breakers.
C30_ServicesIndependent == []C30Inv /\ [][C30Step]_vars

\* operations on two services are in flight at the same time
C30_Witness ==
    \E p, q \in Procs :
        /\ pc[p] = "fn" /\ pc[q] = "fn"
        /\ svc[p] # svc[q]
        /\ serviceMetrics[svc[p]].FailureCalls > 0

\* C32: a call under a name that the dispatcher's switch resolves to a
\* downstream finds a breaker registered for it: it leaves the lookup for the
\* breaker's Call and does not return the not-initialized error.
C32_ResolvedNamesHaveBreaker ==
    [][\A p \in Procs :
          (/\ pc[p] = "resolve"
           /\ Resolve(svc[p]) # "unknown"
           /\ pc'[p] # "resolve")
          => pc'[p] = "lock"]_vars

\* C34: while no call is executing on a breaker its state is Closed or Open,
\* and it is Open exactly when the failure counter is at least the
\* threshold.
C34_OpenIffThresholdReached ==
    \A s \in DOMAIN circuitBreakers :
        Running(s) = {}
        => LET cb == circuitBreakers[s]
           IN  /\ cb.state \in {"closed", "open"}
               /\ cb.state = "open" <=> cb.failures >= cb.failureThreshold

\* a failed probe has left the breaker Open with the counter past the
\* threshold, and no call is executing
C34_Witness ==
    \E s \in DOMAIN circuitBreakers :
        /\ Running(s) = {}
        /\ circuitBreakers[s].state = "open"
        /\ circuitBreakers[s].failures > FailureThreshold

C35Step ==
    \A p \in Procs :
        (pc[p] = "lock" /\ pc'[p] = "idle")
        => /\ circuitBreakers[svc[p]].state = "open"
           /\ InCooldown(circuitBreakers[svc[p]])
           /\ ret'[p] = "circuit_open"
           /\ circuitBreakers' = circuitBreakers
           /\ serviceMetrics' = serviceMetrics

\* C35: a call that is rejected at the head of Call, because the breaker is
\* Open and the cooldown has not elapsed, changes nothing in the breaker
\* (state, failure counter, time of the last failure) nor in the metrics.
C35_RejectionChangesNothing == [][C35Step]_vars

\* a call was rejected some time after the failure that opened the breaker,
\* and the time of the last failure is still that of the failure
C35_Witness ==
    \E p \in Procs, s \in DOMAIN circuitBreakers :
        /\ ret[p] = "circuit_open"
        /\ Running(s) = {}
        /\ circuitBreakers[s].state = "open"
        /\ circuitBreakers[s].lastFailTime < now
        /\ serviceMetrics[s].LastCallTime = circuitBreakers[s].lastFailTime
        /\ serviceMetrics[s].TotalCalls = FailureThreshold

C36Step ==
    LET old == circuitBreakers[HealService]
        new == circuitBreakers'[HealService]
    IN  now >= HealTime
        => /\ \A p \in Procs :
                 (pc[p] = "fn" /\ probe[p] /\ pc'[p] = "idle")
                 => new.state = "closed" /\ new.failures = 0
           /\ old.state = "closed" => new.state = "closed"

\* C36: once the downstream answers every invocation well and while calls
\* keep arriving, an Open breaker is Closed in the end: the call that comes
\* first after the cooldown runs as the probe and its success closes the
\* breaker, and a Closed breaker stays Closed.
C36_OpenBreakerRecovers ==
    /\ [][C36Step]_vars
    /\ (/\ circuitBreakers[HealService].state = "open"
         /\ now >= HealTime
         /\ Started < MaxCalls)
        ~> circuitBreakers[HealService].state = "closed"

\* the failures opened the breaker, the downstream recovered and the one
\* success since, that of the probe, has closed it
C36_Witness ==
    /\ now >= HealTime
    /\ circuitBreakers[HealService].state = "closed"
    /\ circuitBreakers[HealService].failures = 0
    /\ serviceMetrics[HealService].FailureCalls >= FailureThreshold
    /\ serviceMetrics[HealService].SuccessCalls = 1
    /\ serviceMetrics[HealService].LastCallTime >= HealTime
    /\ \A p \in Procs : pc[p] = "idle"

\* C38: a downstream answer with a 4xx status is no failure for the breaker:
\* the failure counter is not incremented and the breaker does not open.
C38_ClientErrorNotCounted ==
    [][\A p \in Procs, r \in Responses :
          (/\ r.transport = "ok" /\ r.decodes
           /\ r.status >= 400 /\ r.status < 500
           /\ FnReturn(p, r))
          => LET old == circuitBreakers[svc[p]]
                 new == circuitBreakers'[svc[p]]
             IN  /\ new.failures <= old.failures
                 /\ new.state # "open"]_vars

C39Step ==
    \A s \in DOMAIN serviceMetrics :
        LET old == serviceMetrics[s]
            new == serviceMetrics'[s]
        IN  /\ new.TotalCalls = new.SuccessCalls + new.FailureCalls
            /\ new.TotalCalls >= old.TotalCalls
            /\ new.SuccessCalls >= old.SuccessCalls
            /\ new.FailureCalls >= old.FailureCalls

\* C39: for every service TotalCalls = SuccessCalls + FailureCalls, and no
\* step, of a call or of a reset, makes one of the three counters smaller.
C39_CountersAddUp ==
    (\A s \in DOMAIN serviceMetrics :
        serviceMetrics[s].TotalCalls =
            serviceMetrics[s].SuccessCalls + serviceMetrics[s].FailureCalls)
    /\ [][C39Step]_vars

\* calls have succeeded and failed, the breaker has opened and a reset has
\* closed it: the counters are as the calls left them
C39_Witness ==
    \E s \in DOMAIN serviceMetrics :
        /\ Running(s) = {}
        /\ serviceMetrics[s].SuccessCalls >= 1
        /\ serviceMetrics[s].FailureCalls >= FailureThreshold
        /\ serviceMetrics[s].TotalCalls =
              serviceMetrics[s].SuccessCalls + serviceMetrics[s].FailureCalls
        /\ serviceMetrics[s].CircuitOpen
        /\ circuitBreakers[s].state = "closed"
        /\ circuitBreakers[s].failures = 0

----------------------------------------------------------------------------
(* Rate limiter: properties *)

C4Step ==
    \A p \in Procs :
        (apc[p] = "bucket" /\ apc'[p] = "idle")
        => LET b == rlObj[aptr[p]]
           IN  IF now - b.lastRefill >= Interval
               THEN allowed' = "allow"
               ELSE allowed' = IF b.used < Rate THEN "allow" ELSE "deny"

\* C4: an Allow call that reaches its bucket less than the interval after the
\* bucket's last refill (or creation) returns true when fewer than rate calls
\* have been served by the bucket since then and false otherwise, so the
\* first rate calls pass and the next one is refused; an Allow call that
\* reaches the bucket once the interval has elapsed since the last refill
\* refills it and returns true, and starts a new count.
C4_RatePerInterval == [][C4Step]_vars

\* a bucket was refilled, then served rate calls and refused the next one
C4_Witness ==
    /\ allowed = "deny"
    /\ \E k \in DOMAIN rlBuckets :
          /\ rlObj[rlBuckets[k]].refilled
          /\ rlObj[rlBuckets[k]].tokens = 0
          /\ rlObj[rlBuckets[k]].used = Rate + 1
          /\ now - rlObj[rlBuckets[k]].lastRefill < Interval

\* the Allow call of some goroutine leaves bucket i in this step
Serves(i) ==
    \E p \in Procs : apc[p] = "bucket" /\ aptr[p] = i /\ apc'[p] = "idle"

C22Step ==
    /\ \A i \in DOMAIN rlObj' :
          rlObj'[i].tokens >= 0 /\ rlObj'[i].tokens <= Rate
    /\ \A i \in DOMAIN rlObj \cap DOMAIN rlObj' :
          LET old == rlObj[i]
              new == rlObj'[i]
          IN  (new.tokens > old.tokens \/ new.lastRefill # old.lastRefill)
              => /\ Serves(i)
                 /\ now - old.lastRefill >= Interval
                 /\ new.lastRefill = now
                 /\ new.tokens = Rate - 1

\* C22: every bucket has 0 <= tokens <= rate; a bucket's tokens increase, and
\* its lastRefill changes, only in an Allow call on it that finds at least
\* interval elapsed since lastRefill: the call sets tokens to rate and
\* lastRefill to now and takes its own token, leaving rate - 1. In any other
\* step tokens stay or go down.
C22_TokensBoundedRefillOnlyWhenDue ==
    (\A i \in DOMAIN rlObj : rlObj[i].tokens >= 0 /\ rlObj[i].tokens <= Rate)
    /\ [][C22Step]_vars

\* an Allow call has just refilled a bucket and taken its token
C22_Witness ==
    /\ allowed = "allow"
    /\ \E k \in DOMAIN rlBuckets :
          /\ rlObj[rlBuckets[k]].refilled
          /\ rlObj[rlBuckets[k]].lastRefill = now
          /\ rlObj[rlBuckets[k]].tokens = Rate - 1
          /\ rlObj[rlBuckets[k]].used = 1

\* C31: concurrent Allow calls for one key are counted against one bucket:
\* callers that have come to the key's bucket hold the same bucket, however
\* their calls interleave, first calls for a new key included.
C31_OneBucketPerKey ==
    \A p, q \in Procs :
        (apc[p] = "bucket" /\ apc[q] = "bucket" /\ akey[p] = akey[q])
        => aptr[p] = aptr[q]


----------------------------------------------------------------------------
(* Token validation: properties *)

C5Step ==
    \A tok \in Tokens :
        (isBlacklisted(tok) /\ Validate(tok)) => vres'.err = "revoked"

\* C5: validating a token that is in the blacklist returns the "token has
\* been revoked" error, whether or not the token is well formed, carries a
\* signature that verifies, or has expired.
C5_RevokedWins == [][C5Step]_vars

\* a blacklisted token that does not even parse has been refused as revoked
C5_Witness ==
    /\ vres = [token |-> MalformedToken, err |-> "revoked"]
    /\ isBlacklisted(MalformedToken)

\* C7: a token that was blacklisted with its own expiry as expiresAt (and not
\* blacklisted again with another one) never validates afterwards, however the
\* sweeps and the clock interleave: while its entry is there the validation
\* fails as revoked, and the sweep removes the entry only when the token is
\* past its expiry, which the validation refuses as well.
C7_RevokedUntilExpiryNeverValid ==
    \A tok \in revokedOwn :
        /\ ValidateJWT(tok) # "nil"
        /\ ~isBlacklisted(tok) => now > tok.exp

\* the sweep has removed the entry of a token blacklisted until its expiry,
\* and the token, whose signature verifies, was refused after that as expired
C7_Witness ==
    /\ GoodToken \in revokedOwn
    /\ ~isBlacklisted(GoodToken)
    /\ vres = [token |-> GoodToken, err |-> "expired"]

\* the errors that tell the caller the token has expired
ExpiredErrors == {"expired", "has_expired"}

C24Step ==
    \A tok \in Tokens :
        (/\ Validate(tok)
         /\ tok.wf /\ tok.alg = "HS256" /\ tok.sig
         /\ ~isBlacklisted(tok)
         /\ tok.hasExp /\ tok.exp <= now)
        => vres'.err \in ExpiredErrors

\* C24: validating a token that is well formed, signed with the secret and
\* not blacklisted, and whose exp is at or before the current time, fails
\* with an expiry error; exp = now is refused too.
C24_ExpiredRejected == [][C24Step]_vars

\* a token whose signature verifies was refused as expired at the very
\* instant of its exp
C24_Witness ==
    /\ vres.token = GoodToken
    /\ vres.err \in ExpiredErrors
    /\ now = GoodToken.exp
    /\ ~isBlacklisted(GoodToken)
    /\ GoodToken \notin revokedOwn

\* the blacklist without the entries whose expiresAt is before t
SweptAt(bl, t) == [u \in {v \in DOMAIN bl : bl[v] >= t} |-> bl[u]]

C25Step ==
    /\ Sweep => tokenBlacklist' = SweptAt(tokenBlacklist, now)
    /\ \A tok \in DOMAIN tokenBlacklist :
          tokenBlacklist[tok] >= now
          => /\ tok \in DOMAIN tokenBlacklist'
             /\ Validate(tok) => vres'.err = "revoked"

\* C25: a sweep at time t removes the entries whose expiresAt is before t
\* and no other, and changes no entry it keeps; no step removes an entry
\* whose expiresAt has not passed, and a validation of a token that has
\* such an entry fails as revoked.
C25_SweepRemovesExactlyExpired == [][C25Step]_vars

\* a sweep has removed the entry of a token past its expiresAt and kept an
\* entry that is at its expiresAt, whose token was then refused as revoked
C25_Witness ==
    /\ GoodToken \in revokedOwn
    /\ ~isBlacklisted(GoodToken)
    /\ isBlacklisted(EternalToken)
    /\ tokenBlacklist[EternalToken] = now
    /\ vres = [token |-> EternalToken, err |-> "revoked"]

\* C26 as stated: no entry of the blacklist has an expiresAt that has passed.
C26_NoExpiredEntry ==
    \A tok \in DOMAIN tokenBlacklist : tokenBlacklist[tok] >= now

\* C26, amended: when a sweep has run, no entry of the blacklist has an
\* expiresAt that has passed; between two sweeps such entries can be there.
C26_NoExpiredEntryAfterSweep ==
    [][Sweep => \A tok \in DOMAIN tokenBlacklist' :
                    tokenBlacklist'[tok] >= now]_vars

\* a sweep has removed the entry of a token past its expiresAt, and what is
\* left in the blacklist has not expired
C26_Witness ==
    /\ GoodToken \in revokedOwn
    /\ ~isBlacklisted(GoodToken)
    /\ DOMAIN tokenBlacklist # {}
    /\ \A tok \in DOMAIN tokenBlacklist : tokenBlacklist[tok] >= now

\* C37: a token that ValidateJWT accepts has an exp, and the exp is later
\* than the time of the validation; a token without exp is refused.
C37_AcceptedTokenHasExpiry ==
    [][\A tok \in Tokens :
          (Validate(tok) /\ vres'.err = "nil")
          => tok.hasExp /\ tok.exp > now]_vars


----------------------------------------------------------------------------
(* Requests to the protected and admin groups: properties *)

\* C6: once a logout request carrying a token has been answered with 200, the
\* token is in the blacklist, so that ValidateJWT refuses it as revoked.
C6_LogoutRevokes ==
    \A tok \in loggedOut : isBlacklisted(tok) /\ ValidateJWT(tok) = "revoked"

\* the middleware that ran on the request a response answers
RanOn(r) == {r.ran[i] : i \in DOMAIN r.ran}

\* the token verifies under the secret: it parses, is HMAC-signed, and its
\* signature is good
Verifies(tok) == tok.wf /\ tok.alg = "HS256" /\ tok.sig

\* C11: a request answered 429 by the rate limiter has not been through the
\* token validator: the limiter is the first of the two to run.
C11_LimiterBeforeValidator ==
    resp.code = "RATE_LIMIT_EXCEEDED" => "jwt" \notin RanOn(resp)

C13_AdminNeedsRole ==
    /\ \A p \in Procs :
          /\ (rpc[p] \in {"handler", "called"} /\ Group(req[p].route) = "admin")
                => /\ Verifies(req[p].header.token)
                   /\ "jwt" \in RanOn(req[p])
                   /\ Roles(req[p].header.token)
                         \cap {"admin", "super_admin"} # {}
          /\ (rpc[p] = "roles" \/ "roles" \in RanOn(req[p]))
                => /\ Verifies(req[p].header.token)
                   /\ req[p].ran[1] = "jwt"
    /\ resp.code \in {"MISSING_AUTH", "INVALID_AUTH_FORMAT", "INVALID_TOKEN"}
          => "roles" \notin RanOn(resp)

\* an admin's reset request is at its handler after a request without the
\* role was answered 403
C13_Witness ==
    /\ resp.code = "INSUFFICIENT_PERMISSIONS"
    /\ \E p \in Procs :
          /\ rpc[p] = "handler"
          /\ req[p].route = "reset"
          /\ req[p].header.token = AdminToken

\* C14: with audit logging enabled, every answered request has exactly one
\* audit record, whichever way it ended.
C14_OneAuditRecord ==
    (EnableAuditLogging /\ resp.status # 0) => resp.audited = 1

\* C23: the retry_after of a 429 is the time left until the refused key's
\* bucket is refilled: lastRefill + interval - now, for the bucket that
\* Allow consulted.
C23_RetryAfterIsTimeToRefill ==
    [][\A p \in Procs :
          (rpc[p] = "limiting" /\ rpc'[p] = "idle" /\ resp'.status = 429)
          => resp'.retry_after = rlObj[aptr[p]].lastRefill + Interval - now]_vars

\* two downstream responses that differ at most in the body's "error" value
SameButBody(r1, r2) ==
    /\ r1.transport = r2.transport
    /\ r1.decodes = r2.decodes
    /\ r1.status = r2.status

\* C29: the error response a handler writes after a failed dispatch is the
\* same for downstream answers that differ only in the body's error value:
\* when the handler answers a dispatch that failed on the downstream answer
\* r1, the message it writes is the one it writes for any r2 that differs
\* from r1 only in the body.
C29_ErrorResponseHidesBody ==
    [][\A p \in Procs, r1, r2 \in Responses :
          (/\ rpc[p] = "called" /\ rpc'[p] = "idle"
           /\ ret[p] # "nil"
           /\ ret[p] = makeHTTPCall(r1)
           /\ SameButBody(r1, r2))
          => /\ resp'.status = 500
             /\ resp'.detail = Message(makeHTTPCall(r2))]_vars

----------------------------------------------------------------------------
(* AuditLogger: properties *)

\* C28: the audit record of a request to a route whose body carries a
\* password (login, change-password, create-user, at the paths routes.Setup
\* gives them) has no request_body field.
C28_NoPasswordBodyLogged ==
    <<auditLog.method, auditLog.path>> \in PasswordRoutes
        => ~auditLog.request_body


=============================================================================
